---- MODULE Spec2Model ----
(***************************************************************************)
(* State-machine model of src/main.py, the structured data anonymizer:     *)
(* main() loads the rule set, checks the input file and runs one of the    *)
(* three adapters anonymize_json, anonymize_csv, anonymize_xml.            *)
(*                                                                         *)
(* Python strings that are inspected character by character (field values, *)
(* placeholders, regex patterns) are sequences of one-character strings.   *)
(* Identifiers that are only compared for equality (dict keys, column      *)
(* names, element paths, tags, action names) are TLA+ strings.             *)
(***************************************************************************)
EXTENDS Integers, Sequences, FiniteSets, TLC

(***************************************************************************)
(* Python / JSON values, tagged by type (isinstance).                      *)
(***************************************************************************)
Str(s) == [t |-> "str", v |-> s]
Num(k) == [t |-> "num", n |-> k]
None == [t |-> "null"]
Obj(items) == [t |-> "obj", items |-> items]
List(items) == [t |-> "list", items |-> items]

IsStr(x) == x.t = "str"

\* Mutant: the test `is not None` in place of truthiness.
Truthy_NotNone(x) == IsStr(x)

\* Python truthiness of a value that is None or a string: `if regex:`,
\* `if element.text:`, `if not encoding:`.
Truthy(x) == IsStr(x) /\ x.v # << >>

(***************************************************************************)
(* String literals of the source.                                          *)
(***************************************************************************)
S_fake_name == <<"f", "a", "k", "e", ".", "n", "a", "m", "e">>
S_fake_email == <<"f", "a", "k", "e", ".", "e", "m", "a", "i", "l">>
S_fake_address == <<"f", "a", "k", "e", ".", "a", "d", "d", "r", "e", "s", "s">>
S_fake_phone_number ==
    <<"f", "a", "k", "e", ".", "p", "h", "o", "n", "e", "_", "n", "u", "m", "b", "e", "r">>
S_fake_date == <<"f", "a", "k", "e", ".", "d", "a", "t", "e">>
S_null == <<"n", "u", "l", "l">>

(***************************************************************************)
(* The regex engine (Python's re.sub) on the patterns the rule sets of     *)
(* this model use:  \d+   \d*   the empty pattern   and the malformed "(". *)
(* Replacement templates of the model hold no backslash, so re.sub inserts *)
(* them literally.                                                         *)
(***************************************************************************)
RE_digits == <<"\\", "d", "+">>
RE_digits_star == <<"\\", "d", "*">>
RE_empty == << >>
RE_malformed == <<"(">>

IsDigit(c) == c \in {"0", "1", "2", "3", "4", "5", "6", "7", "8", "9"}

\* re.compile succeeds (no re.error).
ReValid(regex) == regex \in {RE_digits, RE_digits_star, RE_empty}

\* One character matched by the pattern's atom.
ReAtom(regex, c) == regex # RE_empty /\ IsDigit(c)

\* First position after the maximal run of matching characters from i.
RECURSIVE RunEnd(_, _, _)
RunEnd(regex, s, i) ==
    IF i <= Len(s) /\ ReAtom(regex, s[i]) THEN RunEnd(regex, s, i + 1) ELSE i

\* Patterns that cannot match the empty string (\d+): every maximal run is
\* replaced, everything else is copied.
RECURSIVE SubNonEmpty(_, _, _, _)
SubNonEmpty(regex, repl, s, i) ==
    IF i > Len(s) THEN << >>
    ELSE IF ReAtom(regex, s[i])
         THEN repl \o SubNonEmpty(regex, repl, s, RunEnd(regex, s, i))
         ELSE <<s[i]>> \o SubNonEmpty(regex, repl, s, i + 1)

\* Patterns that match the empty string (\d*, the empty pattern): Python 3.7+
\* also replaces the empty match that follows a non-empty one.
RECURSIVE SubEmptyable(_, _, _, _)
SubEmptyable(regex, repl, s, i) ==
    IF i > Len(s) THEN repl
    ELSE IF ReAtom(regex, s[i])
         THEN repl \o SubEmptyable(regex, repl, s, RunEnd(regex, s, i))
         ELSE repl \o <<s[i]>> \o SubEmptyable(regex, repl, s, i + 1)

\* re.sub(regex, repl, s) for a pattern that compiles.
re_sub(regex, repl, s) ==
    IF regex = RE_digits
    THEN SubNonEmpty(regex, repl, s, 1)
    ELSE SubEmptyable(regex, repl, s, 1)

(***************************************************************************)
(* The synthetic-value provider `fake`: a seeded generator.  Its state is  *)
(* the number drawn so far plus the seed; each call returns a value of the *)
(* asked category and advances the state.                                  *)
(***************************************************************************)
Categories == {"name", "email", "address", "phone_number", "date"}

FakeValues(cat) ==
    CASE cat = "name" -> {<<"A", "l">>, <<"B", "o">>}
      [] cat = "email" -> {<<"a", "@", "b">>, <<"c", "@", "d">>}
      [] cat = "address" -> {<<"1", " ", "S", "t">>, <<"2", " ", "R", "d">>}
      [] cat = "phone_number" -> {<<"5", "5", "5">>, <<"5", "5", "6">>}
      [] cat = "date" -> {<<"1", "-", "2">>, <<"3", "-", "4">>}

fake(cat, rng) ==
    CASE cat = "name" -> IF rng % 2 = 0 THEN <<"A", "l">> ELSE <<"B", "o">>
      [] cat = "email" -> IF rng % 2 = 0 THEN <<"a", "@", "b">> ELSE <<"c", "@", "d">>
      [] cat = "address" ->
            IF rng % 2 = 0 THEN <<"1", " ", "S", "t">> ELSE <<"2", " ", "R", "d">>
      [] cat = "phone_number" -> IF rng % 2 = 0 THEN <<"5", "5", "5">> ELSE <<"5", "5", "6">>
      [] cat = "date" -> IF rng % 2 = 0 THEN <<"1", "-", "2">> ELSE <<"3", "-", "4">>

(***************************************************************************)
(* Rules and rule sets.  A rule is the JSON object of the configuration: a *)
(* function on a subset of {"action", "placeholder", "regex"}.  A rule set *)
(* is the configuration dict in its insertion order: a sequence of         *)
(* <<identifier, rule>> pairs with distinct identifiers.                   *)
(***************************************************************************)
\* dict.get(k, default)
Get(rule, k, default) == IF k \in DOMAIN rule THEN rule[k] ELSE default

RuleAction(rule) == Get(rule, "action", "replace")
RulePlaceholder(rule) == Get(rule, "placeholder", << >>)
RuleRegex(rule) == IF "regex" \in DOMAIN rule THEN Str(rule["regex"]) ELSE None

\* `key in config` and config[key]
HasRule(config, key) == \E i \in 1..Len(config) : config[i][1] = key
RuleOf(config, key) == config[CHOOSE i \in 1..Len(config) : config[i][1] = key][2]

(***************************************************************************)
(* Execution context threaded through an adapter: the provider's state,    *)
(* the diagnostics logged so far, and the record of every rule application *)
(* (which field, its value before, the rule, what was done, its value      *)
(* after).                                                                 *)
(***************************************************************************)
Logged(ctx, msg) == [ctx EXCEPT !.log = Append(@, msg)]
Drawn(ctx) == [ctx EXCEPT !.rng = @ + 1]
Applied(ctx, adapter, id, before, rule, op, after) ==
    [ctx EXCEPT !.trace = Append(@, [adapter |-> adapter, id |-> id, before |-> before,
                                     rule |-> rule, op |-> op, after |-> after])]

\* The value of a field that is no longer there.
Absent == [t |-> "absent"]

\* The placeholder chain shared by the three replace branches: a recognised
\* fake.* tag draws from the provider, anything else is the literal.
ReplaceValue(placeholder, ctx) ==
    IF placeholder = S_fake_name
    THEN [val |-> Str(fake("name", ctx.rng)), ctx |-> Drawn(ctx)]
    ELSE IF placeholder = S_fake_email
    THEN [val |-> Str(fake("email", ctx.rng)), ctx |-> Drawn(ctx)]
    ELSE IF placeholder = S_fake_address
    THEN [val |-> Str(fake("address", ctx.rng)), ctx |-> Drawn(ctx)]
    ELSE IF placeholder = S_fake_phone_number
    THEN [val |-> Str(fake("phone_number", ctx.rng)), ctx |-> Drawn(ctx)]
    ELSE IF placeholder = S_fake_date
    THEN [val |-> Str(fake("date", ctx.rng)), ctx |-> Drawn(ctx)]
    ELSE [val |-> Str(placeholder), ctx |-> ctx]

(***************************************************************************)
(* anonymize_json                                                          *)
(***************************************************************************)
\* Mutant: the replace branch without its "null" case.
JsonReplace_NoNull(placeholder, ctx) == ReplaceValue(placeholder, ctx)

\* The replace branch of anonymize_json: the shared chain plus "null".
JsonReplace(placeholder, ctx) ==
    IF placeholder = S_null
    THEN [val |-> None, ctx |-> ctx]
    ELSE ReplaceValue(placeholder, ctx)

\* Mutant: the remove action tested before the regex.
JsonField_ActionFirst(key, value, rule, ctx) ==
    LET action == RuleAction(rule)
        placeholder == RulePlaceholder(rule)
        regex == RuleRegex(rule)
    IN  IF action = "remove"
        THEN [op |-> "del", val |-> value, ctx |-> ctx]
        ELSE IF Truthy(regex)
        THEN IF IsStr(value)
             THEN IF ReValid(regex.v)
                  THEN [op |-> "set", val |-> Str(re_sub(regex.v, placeholder, value.v)),
                        ctx |-> ctx]
                  ELSE [op |-> "keep", val |-> value,
                        ctx |-> Logged(ctx, <<"error", "invalid regex", key>>)]
             ELSE [op |-> "keep", val |-> value,
                   ctx |-> Logged(ctx, <<"warning", "regex requires string", key>>)]
        ELSE IF action = "replace"
        THEN LET r == JsonReplace(placeholder, ctx)
             IN  [op |-> "set", val |-> r.val, ctx |-> r.ctx]
        ELSE [op |-> "keep", val |-> value,
              ctx |-> Logged(ctx, <<"warning", "unknown action", key>>)]

\* The body of `if key in config:` for one key: what happens to data[key].
\* op is "set" (data[key] = val), "del" (del data[key]) or "keep".
JsonField(key, value, rule, ctx) ==
    LET action == RuleAction(rule)
        placeholder == RulePlaceholder(rule)
        regex == RuleRegex(rule)
    IN  IF Truthy(regex)
        THEN IF IsStr(value)
             THEN IF ReValid(regex.v)
                  THEN [op |-> "set", val |-> Str(re_sub(regex.v, placeholder, value.v)),
                        ctx |-> ctx]
                  ELSE [op |-> "keep", val |-> value,
                        ctx |-> Logged(ctx, <<"error", "invalid regex", key>>)]
             ELSE [op |-> "keep", val |-> value,
                   ctx |-> Logged(ctx, <<"warning", "regex requires string", key>>)]
        ELSE IF action = "replace"
        THEN LET r == JsonReplace(placeholder, ctx)
             IN  [op |-> "set", val |-> r.val, ctx |-> r.ctx]
        ELSE IF action = "remove"
        THEN [op |-> "del", val |-> value, ctx |-> ctx]
        ELSE [op |-> "keep", val |-> value,
              ctx |-> Logged(ctx, <<"warning", "unknown action", key>>)]

\* data[key] = val and del data[key] on a dict kept as an ordered item list.
SetKey(items, key, val) ==
    [i \in 1..Len(items) |-> IF items[i][1] = key THEN <<key, val>> ELSE items[i]]
DelKey(items, key) == SelectSeq(items, LAMBDA it : it[1] # key)
\* data[key], Absent when the key is not in the dict
Lookup(items, key) ==
    IF \E i \in 1..Len(items) : items[i][1] = key
    THEN items[CHOOSE i \in 1..Len(items) : items[i][1] = key][2]
    ELSE Absent

RECURSIVE anonymize_json(_, _, _)
RECURSIVE JsonLoop(_, _, _, _, _)
RECURSIVE JsonItems(_, _, _, _, _)

\* Mutant: a rule-matched key whose value was left in place is recursed into
\* like a key without a rule.
JsonLoop_RecurseKept(orig, cur, i, config, ctx) ==
    IF Len(cur) # Len(orig)
    THEN [exc |-> "RuntimeError", data |-> Obj(cur), ctx |-> ctx]
    ELSE IF i > Len(orig)
    THEN [exc |-> "none", data |-> Obj(cur), ctx |-> ctx]
    ELSE LET key == orig[i][1]
             value == orig[i][2]
             rule == RuleOf(config, key)
             f == JsonField(key, value, rule, ctx)
         IN  IF HasRule(config, key) /\ f.op # "keep"
             THEN LET new == IF f.op = "set" THEN SetKey(cur, key, f.val)
                             ELSE DelKey(cur, key)
                  IN  JsonLoop(orig, new, i + 1, config,
                               Applied(f.ctx, "json", key, value, rule, f.op,
                                       Lookup(new, key)))
             ELSE LET c == IF HasRule(config, key)
                           THEN Applied(f.ctx, "json", key, value, rule, f.op, value)
                           ELSE ctx
                  IN  IF value.t = "obj" \/ value.t = "list"
                      THEN LET r == anonymize_json(value, config, c)
                           IN  IF r.exc # "none"
                               THEN [exc |-> r.exc, data |-> Obj(cur), ctx |-> r.ctx]
                               ELSE JsonLoop(orig, SetKey(cur, key, r.data), i + 1,
                                             config, r.ctx)
                      ELSE JsonLoop(orig, cur, i + 1, config, c)

\* `for key, value in data.items():` from its i-th step.  orig is the item
\* list the iterator was created on, cur the dict as mutated so far.  The
\* dict iterator raises RuntimeError on the step after a change of size.
JsonLoop(orig, cur, i, config, ctx) ==
    IF Len(cur) # Len(orig)
    THEN [exc |-> "RuntimeError", data |-> Obj(cur), ctx |-> ctx]
    ELSE IF i > Len(orig)
    THEN [exc |-> "none", data |-> Obj(cur), ctx |-> ctx]
    ELSE LET key == orig[i][1]
             value == orig[i][2]
         IN  IF HasRule(config, key)
             THEN LET rule == RuleOf(config, key)
                      r == JsonField(key, value, rule, ctx)
                      new == IF r.op = "set" THEN SetKey(cur, key, r.val)
                             ELSE IF r.op = "del" THEN DelKey(cur, key)
                             ELSE cur
                  IN  JsonLoop(orig, new, i + 1, config,
                               Applied(r.ctx, "json", key, value, rule, r.op,
                                       Lookup(new, key)))
             ELSE IF value.t = "obj"
             THEN LET r == anonymize_json(value, config, ctx)
                  IN  IF r.exc # "none"
                      THEN [exc |-> r.exc, data |-> Obj(SetKey(cur, key, r.data)),
                            ctx |-> r.ctx]
                      ELSE JsonLoop(orig, SetKey(cur, key, r.data), i + 1, config, r.ctx)
             ELSE IF value.t = "list"
             THEN LET r == JsonItems(value.items, << >>, 1, config, ctx)
                  IN  IF r.exc # "none"
                      THEN [exc |-> r.exc, data |-> Obj(cur), ctx |-> r.ctx]
                      ELSE JsonLoop(orig, SetKey(cur, key, r.data), i + 1, config, r.ctx)
             ELSE JsonLoop(orig, cur, i + 1, config, ctx)

\* `[anonymize_json(item, config) for item in ...]` from its i-th item.
JsonItems(items, done, i, config, ctx) ==
    IF i > Len(items)
    THEN [exc |-> "none", data |-> List(done), ctx |-> ctx]
    ELSE LET r == anonymize_json(items[i], config, ctx)
         IN  IF r.exc # "none"
             THEN [exc |-> r.exc, data |-> List(done), ctx |-> r.ctx]
             ELSE JsonItems(items, Append(done, r.data), i + 1, config, r.ctx)

\* Mutant: the early return for a value that is neither dict nor list
\* returns nothing (None).
anonymize_json_ReturnsNone(data, config, ctx) ==
    IF data.t # "obj" /\ data.t # "list"
    THEN [exc |-> "none", data |-> None, ctx |-> ctx]
    ELSE IF data.t = "list"
    THEN JsonItems(data.items, << >>, 1, config, ctx)
    ELSE JsonLoop(data.items, data.items, 1, config, ctx)

anonymize_json(data, config, ctx) ==
    IF data.t # "obj" /\ data.t # "list"
    THEN [exc |-> "none", data |-> data, ctx |-> ctx]
    ELSE IF data.t = "list"
    THEN JsonItems(data.items, << >>, 1, config, ctx)
    ELSE JsonLoop(data.items, data.items, 1, config, ctx)

(***************************************************************************)
(* anonymize_csv.  A CSV file is its header record (absent in an empty     *)
(* file) and the raw records that follow, as csv.reader yields them; a     *)
(* blank line is the empty record.                                         *)
(***************************************************************************)
\* chardet finds no encoding in an empty file.
detect_encoding(file) ==
    IF file.wellformed /\ file.doc.header = << >> /\ file.doc.rows = << >>
    THEN None
    ELSE Str(<<"u", "t", "f", "-", "8">>)

\* The dict csv.DictReader builds from one record, as the cells of the header's
\* columns in order: a missing column holds restval (None), cells beyond the
\* header go under restkey, which is no column.
RowDict(fieldnames, rec) ==
    [j \in 1..Len(fieldnames) |-> IF j <= Len(rec) THEN Str(rec[j]) ELSE None]

\* Mutant: None written as its text.
Written_NoneText(cell) == IF cell.t = "null" THEN <<"N", "o", "n", "e">> ELSE cell.v

\* The cell csv.DictWriter writes for a value: None is written as "".
Written(cell) == IF cell.t = "null" THEN << >> ELSE cell.v

\* The body of `if field in config:` for one cell: the value stored in
\* anonymized_row[field], and the branch that stored it ("set": a regex or
\* replace result, "del": the remove branch's "", "keep": the value read).
CsvField(field, value, rule, ctx) ==
    LET action == RuleAction(rule)
        placeholder == RulePlaceholder(rule)
        regex == RuleRegex(rule)
    IN  IF Truthy(regex)
        THEN IF IsStr(value)
             THEN IF ReValid(regex.v)
                  THEN [op |-> "set", val |-> Str(re_sub(regex.v, placeholder, value.v)),
                        ctx |-> ctx]
                  ELSE [op |-> "keep", val |-> value,
                        ctx |-> Logged(ctx, <<"error", "invalid regex", field>>)]
             ELSE [op |-> "keep", val |-> value,
                   ctx |-> Logged(ctx, <<"warning", "regex requires string", field>>)]
        ELSE IF action = "replace"
        THEN LET r == ReplaceValue(placeholder, ctx)
             IN  [op |-> "set", val |-> r.val, ctx |-> r.ctx]
        ELSE IF action = "remove"
        THEN [op |-> "del", val |-> Str(<< >>), ctx |-> ctx]
        ELSE [op |-> "keep", val |-> value,
              ctx |-> Logged(ctx, <<"warning", "unknown action", field>>)]

\* `for field in fieldnames:` from its j-th column; acc is anonymized_row.
RECURSIVE CsvRow(_, _, _, _, _, _)
CsvRow(fieldnames, row, j, acc, config, ctx) ==
    IF j > Len(fieldnames)
    THEN [row |-> acc, ctx |-> ctx]
    ELSE IF HasRule(config, fieldnames[j])
    THEN LET rule == RuleOf(config, fieldnames[j])
             r == CsvField(fieldnames[j], row[j], rule, ctx)
         IN  CsvRow(fieldnames, row, j + 1, Append(acc, r.val), config,
                    Applied(r.ctx, "csv", fieldnames[j], row[j], rule, r.op, r.val))
    ELSE CsvRow(fieldnames, row, j + 1, Append(acc, row[j]), config, ctx)

\* `for row in reader:` from the i-th raw record; DictReader skips blank
\* records.  out is the rows written so far.
RECURSIVE CsvRows(_, _, _, _, _, _)
CsvRows(fieldnames, records, i, out, config, ctx) ==
    IF i > Len(records)
    THEN [rows |-> out, ctx |-> ctx]
    ELSE IF records[i] = << >>
    THEN CsvRows(fieldnames, records, i + 1, out, config, ctx)
    ELSE LET r == CsvRow(fieldnames, RowDict(fieldnames, records[i]), 1, << >>, config, ctx)
             line == [j \in 1..Len(fieldnames) |-> Written(r.row[j])]
         IN  CsvRows(fieldnames, records, i + 1, Append(out, line), config, r.ctx)

\* The output file is opened (created empty) together with the input; every
\* exception is caught and logged inside the adapter.
anonymize_csv(file, config, ctx) ==
    LET encoding == detect_encoding(file)
        ctx1 == IF ~Truthy(encoding)
                THEN Logged(ctx, <<"error", "failed to detect encoding", "">>)
                ELSE ctx
    IN  IF ~file.wellformed
        THEN \* UnicodeDecodeError / csv.Error while reading the header
             [out |-> [header |-> << >>, rows |-> << >>],
              ctx |-> Logged(ctx1, <<"error", "error processing csv", "">>)]
        ELSE IF file.doc.header = << >>
        THEN \* reader.fieldnames is None: writeheader raises TypeError
             [out |-> [header |-> << >>, rows |-> << >>],
              ctx |-> Logged(ctx1, <<"error", "error processing csv", "">>)]
        ELSE LET fieldnames == file.doc.header[1]
                 r == CsvRows(fieldnames, file.doc.rows, 1, << >>, config, ctx1)
             IN  [out |-> [header |-> <<fieldnames>>, rows |-> r.rows], ctx |-> r.ctx]

(***************************************************************************)
(* anonymize_xml.  An element tree is kept by element identity: elements   *)
(* are numbered, element 1 is the root, and the tree gives every element's *)
(* tag, text (None or a string) and list of children.                      *)
(***************************************************************************)
\* Element.iter(): the subtree of n in document order.
RECURSIVE Iter(_, _)
RECURSIVE IterKids(_, _, _)
Iter(tree, n) == <<n>> \o IterKids(tree, tree.kids[n], 1)
IterKids(tree, ks, i) ==
    IF i > Len(ks) THEN << >> ELSE Iter(tree, ks[i]) \o IterKids(tree, ks, i + 1)

\* What ElementPath makes of the rule set's path expressions.
PathSteps(path) ==
    CASE path = "." -> [axis |-> "self", tag |-> "*"]
      [] path = "*" -> [axis |-> "child", tag |-> "*"]
      [] path = "a" -> [axis |-> "child", tag |-> "a"]
      [] path = "c" -> [axis |-> "child", tag |-> "c"]
      [] path = ".//*" -> [axis |-> "descendant", tag |-> "*"]
      [] path = ".//a" -> [axis |-> "descendant", tag |-> "a"]
      [] path = ".//c" -> [axis |-> "descendant", tag |-> "c"]

\* root.findall(path): the matching elements in document order.
findall(tree, path) ==
    LET p == PathSteps(path)
        pool == IF p.axis = "self" THEN <<1>>
                ELSE IF p.axis = "child" THEN tree.kids[1]
                ELSE Tail(Iter(tree, 1))
    IN  SelectSeq(pool, LAMBDA n : p.tag = "*" \/ tree.tag[n] = p.tag)

\* Mutant: the root is returned when no parent is found.
find_parent_DefaultRoot(tree, element) ==
    LET order == Iter(tree, 1)
        hits == SelectSeq(order,
                          LAMBDA n : \E k \in 1..Len(tree.kids[n]) : tree.kids[n][k] = element)
    IN  IF hits = << >> THEN 1 ELSE hits[1]

\* The first element, in document order from the root, that has `element`
\* among its children; 0 is None.
find_parent(tree, element) ==
    LET order == Iter(tree, 1)
        hits == SelectSeq(order,
                          LAMBDA n : \E k \in 1..Len(tree.kids[n]) : tree.kids[n][k] = element)
    IN  IF hits = << >> THEN 0 ELSE hits[1]

\* parent.remove(element)
RemoveChild(tree, parent, element) ==
    [tree EXCEPT !.kids[parent] = SelectSeq(@, LAMBDA n : n # element)]

\* The body of `for element in elements:` for one element; op is "set"
\* (element.text assigned), "del" (element removed from its parent) or "keep".
XmlField(path, element, rule, tree, ctx) ==
    LET action == RuleAction(rule)
        placeholder == RulePlaceholder(rule)
        regex == RuleRegex(rule)
        text == tree.text[element]
    IN  IF Truthy(regex)
        THEN IF Truthy(text)
             THEN IF ReValid(regex.v)
                  THEN [op |-> "set",
                        tree |-> [tree EXCEPT !.text[element] =
                                        Str(re_sub(regex.v, placeholder, text.v))],
                        ctx |-> ctx]
                  ELSE [op |-> "keep", tree |-> tree,
                        ctx |-> Logged(ctx, <<"error", "invalid regex", path>>)]
             ELSE [op |-> "keep", tree |-> tree, ctx |-> ctx]
        ELSE IF action = "replace"
        THEN LET r == ReplaceValue(placeholder, ctx)
             IN  [op |-> "set", tree |-> [tree EXCEPT !.text[element] = r.val],
                  ctx |-> r.ctx]
        ELSE IF action = "remove"
        THEN LET parent == find_parent(tree, element)
             IN  IF parent # 0
                 THEN [op |-> "del", tree |-> RemoveChild(tree, parent, element),
                       ctx |-> ctx]
                 ELSE [op |-> "keep", tree |-> tree,
                       ctx |-> Logged(ctx, <<"warning", "could not find parent", path>>)]
        ELSE [op |-> "keep", tree |-> tree,
              ctx |-> Logged(ctx, <<"warning", "unknown action", path>>)]

\* `for element in elements:` from its k-th element.
RECURSIVE XmlElements(_, _, _, _, _, _)
XmlElements(path, rule, elements, k, tree, ctx) ==
    IF k > Len(elements)
    THEN [tree |-> tree, ctx |-> ctx]
    ELSE LET r == XmlField(path, elements[k], rule, tree, ctx)
             after == IF r.op = "del" THEN Absent ELSE r.tree.text[elements[k]]
         IN  XmlElements(path, rule, elements, k + 1, r.tree,
                         Applied(r.ctx, "xml", path, tree.text[elements[k]], rule, r.op,
                                 after))

\* `for element_path, rule in config.items():` from its i-th rule.
RECURSIVE XmlRules(_, _, _, _)
XmlRules(config, i, tree, ctx) ==
    IF i > Len(config)
    THEN [tree |-> tree, ctx |-> ctx]
    ELSE LET r == XmlElements(config[i][1], config[i][2],
                              findall(tree, config[i][1]), 1, tree, ctx)
         IN  XmlRules(config, i + 1, r.tree, r.ctx)

\* tree.write(): the document of the elements still attached to the root; an
\* element with text None and one with text "" are written alike.  el names
\* the element of the parsed tree each written element is.
RECURSIVE Serialize(_, _)
RECURSIVE SerializeKids(_, _, _)
Serialize(tree, n) ==
    [el |-> n,
     tag |-> tree.tag[n],
     text |-> IF Truthy(tree.text[n]) THEN tree.text[n] ELSE None,
     kids |-> SerializeKids(tree, tree.kids[n], 1)]
SerializeKids(tree, ks, i) ==
    IF i > Len(ks) THEN << >>
    ELSE <<Serialize(tree, ks[i])>> \o SerializeKids(tree, ks, i + 1)

\* ET.ParseError is caught and logged inside the adapter; nothing is written.
anonymize_xml(file, config, ctx) ==
    IF ~file.wellformed
    THEN [written |-> FALSE, out |-> None,
          ctx |-> Logged(ctx, <<"error", "error parsing xml", "">>)]
    ELSE LET r == XmlRules(config, 1, file.doc, ctx)
         IN  [written |-> TRUE, out |-> Serialize(r.tree, 1), ctx |-> r.ctx]

(***************************************************************************)
(* main                                                                    *)
(***************************************************************************)
VARIABLES
    args,       \* the parsed command line: format, and whether -c was given
    cfg_file,   \* the configuration file on disk
    in_file,    \* the input file on disk
    out_file,   \* the output file on disk
    pc,         \* where main is: load_config, check_input, dispatch, exited
    config,     \* main's local `config`: None or the loaded rule set
    rc,         \* the process exit code once exited (-1 before)
    log,        \* the diagnostics logged so far
    rng,        \* the state of the synthetic-value provider
    trace       \* the rule applications made so far

vars == <<args, cfg_file, in_file, out_file, pc, config, rc, log, rng, trace>>

Ctx == [rng |-> rng, log |-> log, trace |-> trace]

Dict(rules) == [t |-> "dict", rules |-> rules]

\* load_config: None when the file is missing or is not valid JSON.
load_config(file) ==
    IF file.status = "missing"
    THEN [config |-> None, log |-> <<<<"error", "configuration file not found", "">>>>]
    ELSE IF file.status = "invalid"
    THEN [config |-> None, log |-> <<<<"error", "invalid json in configuration", "">>>>]
    ELSE [config |-> Dict(file.rules), log |-> << >>]

\* exit(1)
Exit1 == pc' = "exited" /\ rc' = 1

\* main returns: the interpreter exits with status 0.
Return0 == pc' = "exited" /\ rc' = 0

\* `if args.config: config = load_config(...); if config is None: exit(1)`
LoadConfig ==
    /\ pc = "load_config"
    /\ IF args.config
       THEN LET r == load_config(cfg_file)
            IN  /\ config' = r.config
                /\ log' = log \o r.log
                /\ IF r.config = None
                   THEN Exit1
                   ELSE pc' = "check_input" /\ rc' = rc
       ELSE /\ pc' = "check_input"
            /\ UNCHANGED <<config, log, rc>>
    /\ UNCHANGED <<args, cfg_file, in_file, out_file, rng, trace>>

\* `if not os.path.exists(args.input_file): ... exit(1)`
CheckInput ==
    /\ pc = "check_input"
    /\ IF ~in_file.exists
       THEN /\ log' = Append(log, <<"error", "input file does not exist", "">>)
            /\ Exit1
       ELSE /\ pc' = "dispatch"
            /\ UNCHANGED <<log, rc>>
    /\ UNCHANGED <<args, cfg_file, in_file, out_file, config, rng, trace>>

\* The json branch of main.
RunJson ==
    /\ pc = "dispatch"
    /\ args.format = "json"
    /\ IF ~in_file.wellformed
       THEN /\ log' = Append(log, <<"error", "error decoding json", "">>)
            /\ Exit1
            /\ UNCHANGED <<out_file, rng, trace>>
       ELSE IF config = None
       THEN /\ log' = Append(log, <<"error", "configuration required", "json">>)
            /\ Exit1
            /\ UNCHANGED <<out_file, rng, trace>>
       ELSE LET r == anonymize_json(in_file.doc, config.rules, Ctx)
            IN  IF r.exc # "none"
                THEN \* `except Exception as e:` of main
                     /\ log' = Append(r.ctx.log, <<"error", "an error occurred", r.exc>>)
                     /\ rng' = r.ctx.rng
                     /\ trace' = r.ctx.trace
                     /\ Exit1
                     /\ UNCHANGED out_file
                ELSE /\ out_file' = [written |-> TRUE, content |-> r.data]
                     /\ log' = Append(r.ctx.log, <<"info", "anonymized and saved", "json">>)
                     /\ rng' = r.ctx.rng
                     /\ trace' = r.ctx.trace
                     /\ Return0
    /\ UNCHANGED <<args, cfg_file, in_file, config>>

\* The csv branch of main.
RunCsv ==
    /\ pc = "dispatch"
    /\ args.format = "csv"
    /\ IF config = None
       THEN /\ log' = Append(log, <<"error", "configuration required", "csv">>)
            /\ Exit1
            /\ UNCHANGED <<out_file, rng, trace>>
       ELSE LET r == anonymize_csv(in_file, config.rules, Ctx)
            IN  /\ out_file' = [written |-> TRUE, content |-> r.out]
                /\ log' = Append(r.ctx.log, <<"info", "anonymized and saved", "csv">>)
                /\ rng' = r.ctx.rng
                /\ trace' = r.ctx.trace
                /\ Return0
    /\ UNCHANGED <<args, cfg_file, in_file, config>>

\* The xml branch of main.
RunXml ==
    /\ pc = "dispatch"
    /\ args.format = "xml"
    /\ IF config = None
       THEN /\ log' = Append(log, <<"error", "configuration required", "xml">>)
            /\ Exit1
            /\ UNCHANGED <<out_file, rng, trace>>
       ELSE LET r == anonymize_xml(in_file, config.rules, Ctx)
            IN  /\ out_file' = IF r.written
                               THEN [written |-> TRUE, content |-> r.out]
                               ELSE out_file
                /\ log' = Append(r.ctx.log, <<"info", "anonymized and saved", "xml">>)
                /\ rng' = r.ctx.rng
                /\ trace' = r.ctx.trace
                /\ Return0
    /\ UNCHANGED <<args, cfg_file, in_file, config>>

(***************************************************************************)
(* The inputs of the model.                                                *)
(***************************************************************************)
MaxItems == 1   \* longest JSON array
MaxRows == 2    \* most records after the CSV header
MaxNodes == 3   \* elements of the XML tree

Formats == {"json", "csv", "xml"}
Keys == {"a", "c"}
Text == <<"a", "1">>
Hash == <<"#">>

Seqs(S, n) == UNION {[1..k -> S] : k \in 0..n}

\* The rule with the given keys; "-" and <<"-">> stand for an absent key.
MkRule(a, p, r) ==
    LET D == (IF a # "-" THEN {"action"} ELSE {})
               \cup (IF p # <<"-">> THEN {"placeholder"} ELSE {})
               \cup (IF r # <<"-">> THEN {"regex"} ELSE {})
    IN  [k \in D |-> IF k = "action" THEN a ELSE IF k = "placeholder" THEN p ELSE r]

FakeTags == {S_fake_name, S_fake_email, S_fake_address, S_fake_phone_number, S_fake_date}

\* Rules of single-rule rule sets: every placeholder under the replace branch,
\* every action under every regex, remove and an unknown action without regex.
Rules ==
    {MkRule(a, p, <<"-">>) : a \in {"-", "replace"},
                             p \in FakeTags \cup {<<"-">>, Hash, S_null}}
    \cup {MkRule(a, p, r) : a \in {"-", "remove", "mask"}, p \in {<<"-">>, Hash},
                            r \in {RE_digits, RE_digits_star, RE_malformed, RE_empty}}
    \cup {MkRule(a, p, <<"-">>) : a \in {"remove", "mask"}, p \in {<<"-">>, Hash}}

\* Rules of two-rule rule sets.
CoreRules ==
    {MkRule("-", <<"-">>, <<"-">>), MkRule("remove", <<"-">>, <<"-">>),
     MkRule("mask", <<"-">>, <<"-">>), MkRule("-", Hash, RE_digits_star),
     MkRule("remove", <<"-">>, RE_digits), MkRule("-", Hash, RE_malformed)}

RuleSets(ids, idPairs) ==
    {<< >>}
    \cup {<<<<i, r>>>> : i \in ids, r \in Rules}
    \cup {<<<<ip[1], r1>>, <<ip[2], r2>>>> : ip \in idPairs, r1 \in CoreRules, r2 \in CoreRules}

Paths == {".", "*", "a", ".//c", ".//*"}
PathPairs == {<<"a", "*">>, <<"*", "a">>, <<".", "*">>}

ConfigsOf(format) ==
    IF format = "xml"
    THEN RuleSets(Paths, PathPairs)
    ELSE RuleSets(Keys, {<<"a", "c">>, <<"c", "a">>})

\* JSON documents.
Leaves == {Str(Text), Num(7)}
Shallow == Leaves \cup {Obj(<<<<k, v>>>>) : k \in Keys, v \in Leaves}
Nested == Shallow \cup {List(s) : s \in Seqs(Shallow, MaxItems)}
JsonDocs ==
    Leaves
    \cup {List(s) : s \in Seqs(Shallow, MaxItems)}
    \cup {Obj(<< >>)}
    \cup {Obj(<<<<k, v>>>>) : k \in Keys, v \in Nested}
    \cup {Obj(<<<<kp[1], v>>, <<kp[2], w>>>>) :
            kp \in {<<"a", "c">>, <<"c", "a">>}, v \in Shallow, w \in Shallow}

\* CSV documents: distinct column names; blank, short, exact and long records.
Headers == {<< >>, <<"a">>, <<"c">>, <<"a", "c">>, <<"c", "a">>}
Records == {<< >>, <<Text>>, <<<< >>>>, <<Text, << >>>>}
CsvDocs ==
    {[header |-> << >>, rows |-> << >>]}
    \cup {[header |-> <<h>>, rows |-> rs] : h \in Headers, rs \in Seqs(Records, MaxRows)}

\* XML documents: every tree on the elements 1..MaxNodes rooted at 1.
RECURSIVE Ascending(_)
Ascending(S) ==
    IF S = {} THEN << >>
    ELSE LET m == CHOOSE x \in S : \A y \in S : x <= y
         IN  <<m>> \o Ascending(S \ {m})

Elements == 1..MaxNodes
XmlDocs ==
    {[tag |-> [n \in Elements |-> IF n = 1 THEN "r" ELSE tg[n]],
      text |-> [n \in Elements |-> IF n = 1 THEN None ELSE tx[n]],
      kids |-> [n \in Elements |-> Ascending({m \in Elements \ {1} : par[m] = n})]] :
        par \in {f \in [Elements \ {1} -> Elements] : \A m \in Elements \ {1} : f[m] < m},
        tg \in [Elements \ {1} -> {"a", "c"}],
        tx \in [Elements \ {1} -> {None, Str(Text)}]}

DocsOf(format) ==
    IF format = "json" THEN JsonDocs ELSE IF format = "csv" THEN CsvDocs ELSE XmlDocs

UsesFake(rules) ==
    \E i \in 1..Len(rules) : RulePlaceholder(rules[i][2]) \in FakeTags

\* After setup_argparse: the command line is parsed, nothing is loaded yet.
\* Either every file is in order, over all documents and rule sets, or some
\* file is missing or broken, over one document and rule set per format.
Init ==
    /\ pc = "load_config"
    /\ config = None
    /\ rc = -1
    /\ log = << >>
    /\ trace = << >>
    /\ out_file = [written |-> FALSE, content |-> None]
    /\ \E f \in Formats :
         \/ /\ args = [format |-> f, config |-> TRUE]
            /\ \E rules \in ConfigsOf(f) :
                 /\ cfg_file = [status |-> "ok", rules |-> rules]
                 /\ rng \in IF UsesFake(rules) THEN {0, 1} ELSE {0}
            /\ \E d \in DocsOf(f) :
                 in_file = [exists |-> TRUE, wellformed |-> TRUE, doc |-> d]
         \/ /\ args \in [format : {f}, config : BOOLEAN]
            /\ cfg_file \in [status : {"missing", "invalid", "ok"}, rules : {<< >>}]
            /\ in_file \in [exists : BOOLEAN, wellformed : BOOLEAN,
                            doc : {CHOOSE d \in DocsOf(f) : TRUE}]
            /\ rng = 0

Next ==
    \/ LoadConfig
    \/ CheckInput
    \/ RunJson
    \/ RunCsv
    \/ RunXml

Spec == Init /\ [][Next]_vars

(***************************************************************************)
(* Properties.                                                             *)
(***************************************************************************)
Exited == pc = "exited"

\* Every file is in order: main reaches the adapter with a loaded rule set.
InputsOk ==
    /\ args.config
    /\ cfg_file.status = "ok"
    /\ in_file.exists
    /\ in_file.wellformed

Succeeded(format) ==
    Exited /\ args.format = format /\ InputsOk /\ rc = 0 /\ out_file.written

Event(i) == trace[i]
Events == {trace[i] : i \in 1..Len(trace)}

\* The rule's regex is set: present and not the empty string.
RegexSet(rule) == "regex" \in DOMAIN rule /\ rule["regex"] # << >>

SuccessLogged == \E i \in 1..Len(log) : log[i][1] = "info"

\* ---- C1 ----------------------------------------------------------------
\* What re.sub makes of the field's value under the rule of application e.
Substituted(e) == Str(re_sub(e.rule["regex"], RulePlaceholder(e.rule), e.before.v))

\* C1 as stated: in every adapter, whenever a rule whose regex is set (and
\* compiles) is applied to a field whose value is a string, the field's value
\* afterwards is the regex substitution, whatever the action.
C1_RegexSubstitutesEveryString ==
    \A e \in Events :
        (RegexSet(e.rule) /\ ReValid(e.rule["regex"]) /\ IsStr(e.before))
            => e.after = Substituted(e)

\* C1 (amended): whenever a rule whose regex is set is applied to a field, the
\* action branch is never taken: if the regex compiles and the value is a
\* string (for an XML element: a non-empty text) the value afterwards is the
\* regex substitution; otherwise the field is kept with its value unchanged.
C1_RegexPrecedence ==
    \A e \in Events :
        RegexSet(e.rule) =>
            IF /\ ReValid(e.rule["regex"])
               /\ IsStr(e.before)
               /\ (e.adapter = "xml" => e.before.v # << >>)
            THEN e.op = "set" /\ e.after = Substituted(e)
            ELSE e.op = "keep" /\ e.after = e.before

\* A rule with action remove and a regex is applied to a string and rewrites it.
C1_Witness ==
    /\ Exited
    /\ \E e \in Events :
         /\ e.adapter = "json"
         /\ RuleAction(e.rule) = "remove"
         /\ RegexSet(e.rule)
         /\ IsStr(e.before)
         /\ e.op = "set"
         /\ e.after # e.before

\* ---- C2 ----------------------------------------------------------------
\* A JSON value without its rule-matched keys (and what lies under them).
RECURSIVE Frame(_, _)
Frame(v, rules) ==
    IF v.t = "obj"
    THEN LET keep == SelectSeq(v.items, LAMBDA it : ~HasRule(rules, it[1]))
         IN  Obj([i \in 1..Len(keep) |-> <<keep[i][1], Frame(keep[i][2], rules)>>])
    ELSE IF v.t = "list"
    THEN List([i \in 1..Len(v.items) |-> Frame(v.items[i], rules)])
    ELSE v

\* The records DictReader yields as rows.
DataRows(doc) == SelectSeq(doc.rows, LAMBDA rec : rec # << >>)

\* The parent of element n in a tree (0 for the root) and n with its ancestors.
ParentOf(tree, n) ==
    IF \E m \in DOMAIN tree.kids : \E k \in 1..Len(tree.kids[m]) : tree.kids[m][k] = n
    THEN CHOOSE m \in DOMAIN tree.kids : \E k \in 1..Len(tree.kids[m]) : tree.kids[m][k] = n
    ELSE 0
RECURSIVE SelfAndAncestors(_, _)
SelfAndAncestors(tree, n) ==
    IF n = 0 THEN {} ELSE {n} \cup SelfAndAncestors(tree, ParentOf(tree, n))

Matches(tree, path, n) ==
    \E k \in 1..Len(findall(tree, path)) : findall(tree, path)[k] = n

\* The written elements, each with the element it hangs under.
RECURSIVE Flat(_, _)
Flat(x, parent) ==
    {[el |-> x.el, tag |-> x.tag, text |-> x.text, parent |-> parent]}
        \cup UNION {Flat(x.kids[i], x.el) : i \in 1..Len(x.kids)}

FrameJson ==
    Frame(out_file.content, cfg_file.rules) = Frame(in_file.doc, cfg_file.rules)

FrameCsv ==
    LET doc == in_file.doc
        rows == DataRows(doc)
        out == out_file.content
    IN  doc.header # << >> =>
          /\ Len(out.rows) = Len(rows)
          /\ \A r \in 1..Len(rows) : \A j \in 1..Len(doc.header[1]) :
                (~HasRule(cfg_file.rules, doc.header[1][j]) /\ j <= Len(rows[r]))
                    => out.rows[r][j] = rows[r][j]

FrameXml ==
    LET tree == in_file.doc
        rules == cfg_file.rules
    IN  \A n \in DOMAIN tree.tag :
          ( /\ \A i \in 1..Len(rules) : ~Matches(tree, rules[i][1], n)
            /\ \A i \in 1..Len(rules) : \A m \in SelfAndAncestors(tree, n) :
                   Matches(tree, rules[i][1], m) => RuleAction(rules[i][2]) # "remove" )
          => [el |-> n, tag |-> tree.tag[n],
              text |-> IF Truthy(tree.text[n]) THEN tree.text[n] ELSE None,
              parent |-> ParentOf(tree, n)] \in Flat(out_file.content, 0)

\* C2: in every document an adapter writes, everything outside the
\* rule-matched fields is as in the input: JSON keys without a rule at any
\* depth (in nested objects and arrays), CSV cells of columns without a rule,
\* XML elements that no rule's path matches (and that hang under no removed
\* element).
C2_UnmatchedFieldsUnchanged ==
    /\ Succeeded("json") => FrameJson
    /\ Succeeded("csv") => FrameCsv
    /\ Succeeded("xml") => FrameXml

\* A JSON document is written changed, and it has keys without a rule nested
\* in an object or array under a key without a rule.
C2_Witness ==
    /\ Succeeded("json")
    /\ out_file.content # in_file.doc
    /\ in_file.doc.t = "obj"
    /\ \E i \in 1..Len(in_file.doc.items) :
         LET f == Frame(in_file.doc, cfg_file.rules)
         IN  /\ i <= Len(f.items)
             /\ f.items[i][2].t \in {"obj", "list"}
             /\ f.items[i][2].items # << >>

\* ---- C3 ----------------------------------------------------------------
\* C3: when anonymize_json deletes a key under a remove rule, it returns
\* normally and the document, without that key, is written.
C3_JsonRemoveReturnsNormally ==
    (Exited /\ \E e \in Events : e.adapter = "json" /\ e.op = "del")
        => /\ rc = 0
           /\ out_file.written
           /\ \A e \in Events : e.op = "del" => e.after = Absent

\* ---- C4 ----------------------------------------------------------------
\* The rule of the column decides by its action branch and the action is remove.
RemovesColumn(rules, field) ==
    /\ HasRule(rules, field)
    /\ ~RegexSet(RuleOf(rules, field))
    /\ RuleAction(RuleOf(rules, field)) = "remove"

\* The rule of the column replaces the cell whatever it holds.
ReplacesColumn(rules, field) ==
    /\ HasRule(rules, field)
    /\ ~RegexSet(RuleOf(rules, field))
    /\ RuleAction(RuleOf(rules, field)) = "replace"

FieldFailure(e) ==
    IF RegexSet(e.rule)
    THEN ~IsStr(e.before) \/ ~ReValid(e.rule["regex"])
    ELSE RuleAction(e.rule) \notin {"replace", "remove"}

\* C5: when applying a rule has failed for a field, the field keeps its
\* value, main exits with status 0 and the document is written.
C5_FieldFailuresNeverEscalate ==
    (Exited /\ \E e \in Events : FieldFailure(e))
        => /\ \A e \in Events : FieldFailure(e) => e.op = "keep" /\ e.after = e.before
           /\ rc = 0
           /\ out_file.written

\* ---- C6 ----------------------------------------------------------------
\* C6: main exits non-zero when the input is missing, the configuration is
\* unreadable, invalid or missing, or the input is malformed; it exits 0 and
\* logs success only when the document was processed and written.
C6_ExitStatus ==
    Exited =>
        /\ ~InputsOk => rc # 0 /\ ~SuccessLogged
        /\ (rc = 0 \/ SuccessLogged) => InputsOk /\ out_file.written

\* ---- C7 ----------------------------------------------------------------
\* The value the replace branch is to store for the rule's placeholder.
ReplaceOutcome(e) ==
    LET p == RulePlaceholder(e.rule)
    IN  /\ e.op = "set"
        /\ IF p = S_fake_name THEN IsStr(e.after) /\ e.after.v \in FakeValues("name")
           ELSE IF p = S_fake_email THEN IsStr(e.after) /\ e.after.v \in FakeValues("email")
           ELSE IF p = S_fake_address
           THEN IsStr(e.after) /\ e.after.v \in FakeValues("address")
           ELSE IF p = S_fake_phone_number
           THEN IsStr(e.after) /\ e.after.v \in FakeValues("phone_number")
           ELSE IF p = S_fake_date THEN IsStr(e.after) /\ e.after.v \in FakeValues("date")
           ELSE IF p = S_null /\ e.adapter = "json" THEN e.after = None
           ELSE e.after = Str(p)

\* C7: a rule with action replace (explicit or defaulted) and no regex stores
\* a provider value of the category for a fake.* placeholder, JSON null for
\* "null" in JSON, and the literal placeholder otherwise (so the string "null"
\* in CSV and XML).
C7_PlaceholderResolution ==
    \A e \in Events :
        ("regex" \notin DOMAIN e.rule /\ RuleAction(e.rule) = "replace")
            => ReplaceOutcome(e)

\* A JSON field that held a string is replaced by null under placeholder "null".
C7_Witness ==
    /\ Succeeded("json")
    /\ \E e \in Events :
         /\ "regex" \notin DOMAIN e.rule
         /\ RulePlaceholder(e.rule) = S_null
         /\ IsStr(e.before)
         /\ e.after = None
         /\ \E i \in 1..Len(out_file.content.items) :
              out_file.content.items[i] = <<e.id, None>>

\* ---- C8 ----------------------------------------------------------------
\* Rule i of the rule set is a remove rule on the document root.
RootRemoval(rules, i) ==
    /\ rules[i][1] = "."
    /\ ~RegexSet(rules[i][2])
    /\ RuleAction(rules[i][2]) = "remove"

\* C8: a remove rule matching the root is skipped with a diagnostic and the
\* root stays; the rules after it are still applied to every element they
\* match, and the document is written.
C8_XmlRootRemovalSkipped ==
    (Exited /\ args.format = "xml" /\ InputsOk /\ cfg_file.rules # << >>
        /\ RootRemoval(cfg_file.rules, 1)) =>
        LET rules == cfg_file.rules
        IN  /\ rc = 0
            /\ out_file.written
            /\ \E i \in 1..Len(log) : log[i] = <<"warning", "could not find parent", ".">>
            /\ trace[1].op = "keep" /\ trace[1].after = trace[1].before
            /\ out_file.content.el = 1
            /\ Len(rules) = 1 => out_file.content = Serialize(in_file.doc, 1)
            /\ \A j \in 2..Len(rules) :
                 Cardinality({i \in 1..Len(trace) : trace[i].id = rules[j][1]})
                    = Len(findall(in_file.doc, rules[j][1]))

\* The root removal is skipped and the rule after it changes an element.
C8_Witness ==
    /\ Exited
    /\ args.format = "xml"
    /\ InputsOk
    /\ Len(cfg_file.rules) = 2
    /\ RootRemoval(cfg_file.rules, 1)
    /\ out_file.written
    /\ \E i \in 2..Len(trace) : trace[i].op # "keep"

\* ---- C9 ----------------------------------------------------------------
\* The rule-matched keys anonymize_json is to reach: those under no other
\* rule-matched key.
RECURSIVE Reached(_, _)
RECURSIVE ReachedSum(_, _, _)
Reached(v, rules) ==
    IF v.t = "obj" \/ v.t = "list" THEN ReachedSum(v, rules, 1) ELSE 0
ReachedSum(v, rules, i) ==
    IF i > Len(v.items) THEN 0
    ELSE (IF v.t = "obj"
          THEN IF HasRule(rules, v.items[i][1]) THEN 1 ELSE Reached(v.items[i][2], rules)
          ELSE Reached(v.items[i], rules))
         + ReachedSum(v, rules, i + 1)

\* All rule-matched keys of the document, at any depth.
RECURSIVE Matched(_, _)
RECURSIVE MatchedSum(_, _, _)
Matched(v, rules) ==
    IF v.t = "obj" \/ v.t = "list" THEN MatchedSum(v, rules, 1) ELSE 0
MatchedSum(v, rules, i) ==
    IF i > Len(v.items) THEN 0
    ELSE (IF v.t = "obj"
          THEN (IF HasRule(rules, v.items[i][1]) THEN 1 ELSE 0)
               + Matched(v.items[i][2], rules)
          ELSE Matched(v.items[i], rules))
         + MatchedSum(v, rules, i + 1)

\* The rule leaves value v in place: an unknown action, or a regex on a
\* value that is not a string.
LeavesInPlace(rule, v) ==
    IF RegexSet(rule) THEN ~IsStr(v) ELSE RuleAction(rule) \notin {"replace", "remove"}

\* Under every rule-matched key whose rule leaves its value in place, the
\* written value w is the input value v, whatever keys it holds.
RECURSIVE KeptWhole(_, _, _)
KeptWhole(v, w, rules) ==
    IF v.t = "obj"
    THEN /\ w.t = "obj"
         /\ Len(w.items) = Len(v.items)
         /\ \A i \in 1..Len(v.items) :
              IF HasRule(rules, v.items[i][1])
              THEN LeavesInPlace(RuleOf(rules, v.items[i][1]), v.items[i][2])
                      => w.items[i] = v.items[i]
              ELSE KeptWhole(v.items[i][2], w.items[i][2], rules)
    ELSE IF v.t = "list"
    THEN /\ w.t = "list"
         /\ Len(w.items) = Len(v.items)
         /\ \A i \in 1..Len(v.items) : KeptWhole(v.items[i], w.items[i], rules)
    ELSE TRUE

\* C9: anonymize_json applies rules only to keys under no other rule-matched
\* key, and a value its rule leaves in place is written as it was, rule-matched
\* keys inside it included.
C9_JsonStopsAtMatchedKeys ==
    Succeeded("json") =>
        /\ Len(trace) = Reached(in_file.doc, cfg_file.rules)
        /\ KeptWhole(in_file.doc, out_file.content, cfg_file.rules)

\* A key whose rule leaves its object value in place holds a rule-matched key.
C9_Witness ==
    /\ Succeeded("json")
    /\ Matched(in_file.doc, cfg_file.rules) > Reached(in_file.doc, cfg_file.rules)
    /\ \E e \in Events : e.op = "keep" /\ e.before.t = "obj" /\ e.after = e.before

\* ---- C10 ---------------------------------------------------------------
\* What the action branch alone is to do with the field.
ActionOutcome(e) ==
    IF RuleAction(e.rule) = "replace"
    THEN ReplaceOutcome(e)
    ELSE IF RuleAction(e.rule) = "remove"
    THEN IF e.adapter = "csv"
         THEN e.op = "del" /\ e.after = Str(<< >>)
         ELSE \/ e.op = "del" /\ e.after = Absent
              \/ e.adapter = "xml" /\ e.op = "keep" /\ e.after = e.before
    ELSE e.op = "keep" /\ e.after = e.before

\* C10: a rule whose regex is the empty string is applied as the action
\* branch alone decides, like the rule without a regex key: no substitution.
C10_EmptyRegexIsAbsent ==
    \A e \in Events :
        ("regex" \in DOMAIN e.rule /\ e.rule["regex"] = << >>) => ActionOutcome(e)

\* A rule with an empty regex, a placeholder and an unknown action leaves a
\* string in place that a substitution of the empty pattern would change.
C10_Witness ==
    /\ Exited
    /\ \E e \in Events :
         /\ "regex" \in DOMAIN e.rule
         /\ e.rule["regex"] = << >>
         /\ RulePlaceholder(e.rule) = Hash
         /\ IsStr(e.before)
         /\ e.op = "keep"
         /\ e.after = e.before
         /\ Str(re_sub(RE_empty, Hash, e.before.v)) # e.before

====
